---------------------------- MODULE Spec2Model ----------------------------
(***************************************************************************)
(* A model of swig/python2/examples/pytho2_application_example.py: the     *)
(* sysrepo example application that subscribes to the changes of one       *)
(* module, dumps its configuration at startup and again on every change.   *)
(*                                                                         *)
(* Python strings are sequences of one-character strings, so that          *)
(* concatenation, prefixes and substrings are computed, not assumed.       *)
(* sys.stdout is a file object: the characters written so far and the      *)
(* softspace flag the Python 2 print statement keeps between items.        *)
(***************************************************************************)
EXTENDS Integers, Sequences, FiniteSets

VARIABLES
    pc,           \* position of the script's top-level code (lines 78-109)
    argv,         \* sys.argv, the script name first
    module_name,  \* the global module_name (line 79/81)
    conn,         \* the global conn (line 86)
    sess,         \* the global sess (line 89)
    subscribe,    \* the global subscribe (line 92)
    stdout,       \* sys.stdout: [buf, softspace]
    calls,        \* the library calls made so far, in order
    registered,   \* the library's subscription table: subscribed module names
    cb,           \* the arguments of the latest module_change_cb invocation
    dump,         \* the latest print_current_config invocation
    fval,         \* formatter harness: the value handed to print_value
    fres          \* formatter harness: what print_value did with it

vars ==
    << pc, argv, module_name, conn, sess, subscribe, stdout, calls, registered,
       cb, dump, fval, fres >>

mainVars ==
    << pc, argv, module_name, conn, sess, subscribe, stdout, calls, registered,
       cb, dump >>

fmtVars == << fval, fres >>

---------------------------------------------------------------------------
(* Bounds of the model. *)

\* the longest result set session.get_items returns
MaxVals == 2

\* how many times the library invokes the change callback in one run
MaxCallbacks == 1

---------------------------------------------------------------------------
(* String literals of the script. *)

DEFAULT_MODULE_NAME ==
    << "i", "e", "t", "f", "-", "i", "n", "t", "e", "r", "f", "a",
       "c", "e", "s" >>

APP_NAME ==
    << "e", "x", "a", "m", "p", "l", "e", "_", "a", "p", "p", "l",
       "i", "c", "a", "t", "i", "o", "n" >>

SLASH ==
    << "/" >>

WILDCARD_SUFFIX ==
    << ":", "*", "/", "/", "*" >>

SPACE ==
    << " " >>

EQ_PREFIX ==
    << "=", " " >>

TXT_CONTAINER ==
    << "(", "c", "o", "n", "t", "a", "i", "n", "e", "r", ")" >>

TXT_LIST ==
    << "(", "l", "i", "s", "t", " ", "i", "n", "s", "t", "a", "n",
       "c", "e", ")" >>

TXT_TRUE ==
    << "=", " ", "t", "r", "u", "e" >>

TXT_FALSE ==
    << "=", " ", "f", "a", "l", "s", "e" >>

TXT_UNPRINTABLE ==
    << "(", "u", "n", "p", "r", "i", "n", "t", "a", "b", "l", "e",
       ")" >>

MSG_CHANGED ==
    << "\n", "\n", " ", "=", "=", "=", "=", "=", "=", "=", "=", "=",
       "=", " ", "C", "O", "N", "F", "I", "G", " ", "H", "A", "S",
       " ", "C", "H", "A", "N", "G", "E", "D", ",", " ", "C", "U",
       "R", "R", "E", "N", "T", " ", "R", "U", "N", "N", "I", "N",
       "G", " ", "C", "O", "N", "F", "I", "G", ":", " ", "=", "=",
       "=", "=", "=", "=", "=", "=", "=", "=", "\n" >>

MSG_HINT ==
    << "\n", "Y", "o", "u", " ", "c", "a", "n", " ", "p", "a", "s",
       "s", " ", "t", "h", "e", " ", "m", "o", "d", "u", "l", "e",
       " ", "n", "a", "m", "e", " ", "t", "o", " ", "b", "e", " ",
       "s", "u", "b", "s", "c", "r", "i", "b", "e", "d", " ", "a",
       "s", " ", "t", "h", "e", " ", "f", "i", "r", "s", "t", " ",
       "a", "r", "g", "u", "m", "e", "n", "t" >>

MSG_READING ==
    << "\n", "\n", " ", "=", "=", "=", "=", "=", "=", "=", "=", "=",
       "=", " ", "R", "E", "A", "D", "I", "N", "G", " ", "S", "T",
       "A", "R", "T", "U", "P", " ", "C", "O", "N", "F", "I", "G",
       ":", " ", "=", "=", "=", "=", "=", "=", "=", "=", "=", "=",
       "\n" >>

MSG_APPLIED ==
    << "\n", "\n", " ", "=", "=", "=", "=", "=", "=", "=", "=", "=",
       "=", " ", "S", "T", "A", "R", "T", "U", "P", " ", "C", "O",
       "N", "F", "I", "G", " ", "A", "P", "P", "L", "I", "E", "D",
       " ", "A", "S", " ", "R", "U", "N", "N", "I", "N", "G", " ",
       "=", "=", "=", "=", "=", "=", "=", "=", "=", "=", "\n" >>

MSG_EXIT ==
    << "A", "p", "p", "l", "i", "c", "a", "t", "i", "o", "n", " ",
       "e", "x", "i", "t", " ", "r", "e", "q", "u", "e", "s", "t",
       "e", "d", ",", " ", "e", "x", "i", "t", "i", "n", "g", ".",
       "\n" >>

---------------------------------------------------------------------------
(* Python 2 objects and the print statement. *)

PyStr(s) == [t |-> "str", s |-> s]

PyInt(n) == [t |-> "int", n |-> n]

PyBool(b) == [t |-> "bool", b |-> b]

PyNone == [t |-> "None"]

\* the result of an expression that raised (TypeError and the like)
PyRaise == [t |-> "raise"]

\* a + b on strings; anything else added to a string raises TypeError
PyAdd(a, b) ==
    IF a.t = "str" /\ b.t = "str" THEN PyStr(a.s \o b.s) ELSE PyRaise

\* truth value of an object, as the if statement takes it
PyTruth(o) ==
    CASE o.t = "bool" -> o.b
      [] o.t = "int"  -> o.n # 0
      [] o.t = "str"  -> Len(o.s) > 0
      [] OTHER        -> FALSE

Digit(d) == << "0", "1", "2", "3", "4", "5", "6", "7", "8", "9" >>[d + 1]

RECURSIVE NatToChars(_)
NatToChars(n) ==
    IF n < 10 THEN << Digit(n) >> ELSE NatToChars(n \div 10) \o << Digit(n % 10) >>

IntToChars(n) == IF n < 0 THEN << "-" >> \o NatToChars(0 - n) ELSE NatToChars(n)

\* a formatter that forgets repr() and adds the payload itself to "= "
Repr_missing(o) == o

\* repr(): decimal digits for an integer, the quoted text for a string
Repr(o) ==
    CASE o.t = "int"  -> PyStr(IntToChars(o.n))
      [] o.t = "str"  -> PyStr(<< "'" >> \o o.s \o << "'" >>)
      [] o.t = "bool" -> PyStr(IF o.b THEN << "T", "r", "u", "e" >>
                                      ELSE << "F", "a", "l", "s", "e" >>)
      [] o.t = "None" -> PyStr(<< "N", "o", "n", "e" >>)
      [] OTHER        -> PyRaise

IsSpace(c) == c \in { " ", "\n", "\t", "\r", "\f" }

NewFile == [buf |-> << >>, softspace |-> FALSE]

\* PRINT_ITEM: one item of a print statement
PrintItem(f, s) ==
    [buf       |-> f.buf \o (IF f.softspace THEN SPACE ELSE << >>) \o s,
     softspace |-> (Len(s) = 0 \/ ~IsSpace(s[Len(s)]) \/ s[Len(s)] = " ")]

\* PRINT_NEWLINE: the end of a print statement without a trailing comma
PrintNewline(f) == [buf |-> f.buf \o << "\n" >>, softspace |-> FALSE]

\* print s
PrintStmt(f, s) == PrintNewline(PrintItem(f, s))

---------------------------------------------------------------------------
(* The values of the library: a path, a type tag and a payload. *)

\* the type tags print_value names (lines 25-60)
EnumeratedTypes ==
    { "SR_CONTAINER_T", "SR_CONTAINER_PRESENCE_T", "SR_LIST_T", "SR_STRING_T",
      "SR_BOOL_T", "SR_ENUM_T", "SR_UINT8_T", "SR_UINT16_T", "SR_UINT32_T",
      "SR_UINT64_T", "SR_INT8_T", "SR_INT16_T", "SR_INT32_T", "SR_INT64_T",
      "SR_IDENTITYREF_T", "SR_BITS_T", "SR_BINARY_T" }

\* type tags of the library that print_value does not name
OtherTypes ==
    { "SR_UNKNOWN_T", "SR_LEAF_EMPTY_T", "SR_DECIMAL64_T", "SR_INSTANCEID_T" }

XPaths ==
    { << "/", "m", ":", "c" >>, << "/", "m", ":", "c", "/", "l" >> }

Texts == { << >>, << "u", "p" >>, << "a", " ", "b" >> }

\* the payloads a value of a given type can carry
Payloads(type) ==
    CASE type \in { "SR_STRING_T", "SR_ENUM_T", "SR_IDENTITYREF_T", "SR_BITS_T",
                    "SR_BINARY_T", "SR_INSTANCEID_T" }
                                 -> { PyStr(s) : s \in Texts }
      [] type = "SR_BOOL_T"      -> { PyBool(TRUE), PyBool(FALSE) }
      [] type = "SR_UINT8_T"     -> { PyInt(0), PyInt(255) }
      [] type = "SR_UINT16_T"    -> { PyInt(0), PyInt(65535) }
      [] type = "SR_UINT32_T"    -> { PyInt(7), PyInt(2147483647) }
      [] type = "SR_UINT64_T"    -> { PyInt(0), PyInt(2147483647) }
      [] type = "SR_INT8_T"      -> { PyInt(-128), PyInt(127) }
      [] type = "SR_INT16_T"     -> { PyInt(-32768), PyInt(32767) }
      [] type = "SR_INT32_T"     -> { PyInt(-2147483647), PyInt(10) }
      [] type = "SR_INT64_T"     -> { PyInt(-1), PyInt(2147483647) }
      [] OTHER                   -> { PyNone }

Values ==
    UNION { { [xpath |-> x, type |-> t, data |-> d] :
                x \in XPaths, d \in Payloads(t) } :
            t \in EnumeratedTypes \cup OtherTypes }

\* value.data().get_<kind>(): the payload when the value is of that kind
Get(value, type) == IF value.type = type THEN value.data ELSE PyNone

Branch(obj, acc) == [obj |-> obj, acc |-> acc]

\* a formatter that prints a boolean as it prints the numbers, through repr()
bool_text_repr(value) ==
    Branch(PyAdd(PyStr(EQ_PREFIX), Repr(Get(value, "SR_BOOL_T"))), << "get_bool" >>)

\* lines 33-37: the branch of a boolean
bool_text(value) ==
    Branch(IF PyTruth(Get(value, "SR_BOOL_T")) THEN PyStr(TXT_TRUE) ELSE PyStr(TXT_FALSE),
           << "get_bool" >>)

\* a formatter whose last branch prints the payload of the unnamed types too
unprintable_text_payload(value) ==
    Branch(PyAdd(PyStr(EQ_PREFIX), Repr(Get(value, value.type))), << "data" >>)

\* lines 62-63: the branch of every type tag the chain does not name
unprintable_text(value) == Branch(PyStr(TXT_UNPRINTABLE), << >>)

\* print_value, lines 25-63: the text of the second print statement of the
\* branch the type tag selects, and the payload accessors the branch calls
value_text(value) ==
    IF value.type = "SR_CONTAINER_T" THEN
        Branch(PyStr(TXT_CONTAINER), << >>)
    ELSE IF value.type = "SR_CONTAINER_PRESENCE_T" THEN
        Branch(PyStr(TXT_CONTAINER), << >>)
    ELSE IF value.type = "SR_LIST_T" THEN
        Branch(PyStr(TXT_LIST), << >>)
    ELSE IF value.type = "SR_STRING_T" THEN
        Branch(PyAdd(PyStr(EQ_PREFIX), Get(value, "SR_STRING_T")), << "get_string" >>)
    ELSE IF value.type = "SR_BOOL_T" THEN
        bool_text(value)
    ELSE IF value.type = "SR_ENUM_T" THEN
        Branch(PyAdd(PyStr(EQ_PREFIX), Get(value, "SR_ENUM_T")), << "get_enum" >>)
    ELSE IF value.type = "SR_UINT8_T" THEN
        Branch(PyAdd(PyStr(EQ_PREFIX), Repr(Get(value, "SR_UINT8_T"))), << "get_uint8" >>)
    ELSE IF value.type = "SR_UINT16_T" THEN
        Branch(PyAdd(PyStr(EQ_PREFIX), Repr(Get(value, "SR_UINT16_T"))), << "get_uint16" >>)
    ELSE IF value.type = "SR_UINT32_T" THEN
        Branch(PyAdd(PyStr(EQ_PREFIX), Repr(Get(value, "SR_UINT32_T"))), << "get_uint32" >>)
    ELSE IF value.type = "SR_UINT64_T" THEN
        Branch(PyAdd(PyStr(EQ_PREFIX), Repr(Get(value, "SR_UINT64_T"))), << "get_uint64" >>)
    ELSE IF value.type = "SR_INT8_T" THEN
        Branch(PyAdd(PyStr(EQ_PREFIX), Repr(Get(value, "SR_INT8_T"))), << "get_int8" >>)
    ELSE IF value.type = "SR_INT16_T" THEN
        Branch(PyAdd(PyStr(EQ_PREFIX), Repr(Get(value, "SR_INT16_T"))), << "get_int16" >>)
    ELSE IF value.type = "SR_INT32_T" THEN
        Branch(PyAdd(PyStr(EQ_PREFIX), Repr(Get(value, "SR_INT32_T"))), << "get_int32" >>)
    ELSE IF value.type = "SR_INT64_T" THEN
        Branch(PyAdd(PyStr(EQ_PREFIX), Repr(Get(value, "SR_INT64_T"))), << "get_int64" >>)
    ELSE IF value.type = "SR_IDENTITYREF_T" THEN
        Branch(PyAdd(PyStr(EQ_PREFIX), Repr(Get(value, "SR_IDENTITYREF_T"))),
               << "get_identityref" >>)
    ELSE IF value.type = "SR_BITS_T" THEN
        Branch(PyAdd(PyStr(EQ_PREFIX), Repr(Get(value, "SR_BITS_T"))), << "get_bits" >>)
    ELSE IF value.type = "SR_BINARY_T" THEN
        Branch(PyAdd(PyStr(EQ_PREFIX), Repr(Get(value, "SR_BINARY_T"))), << "get_binary" >>)
    ELSE
        unprintable_text(value)

\* print_value(value) writing to the file f: the path and a space as a print
\* item (line 23), then the branch's print statement; an expression that
\* raises leaves the first item written and propagates
print_value(f, value) ==
    LET f1 == PrintItem(f, value.xpath \o SPACE)
        br == value_text(value)
    IN  IF br.obj.t = "str"
        THEN [f |-> PrintStmt(f1, br.obj.s), ok |-> TRUE, acc |-> br.acc]
        ELSE [f |-> f1, ok |-> FALSE, acc |-> br.acc]

---------------------------------------------------------------------------
(* print_current_config and module_change_cb. *)

\* a dumper that forgets the leading slash of the path
select_xpath_relative(name) == name \o WILDCARD_SUFFIX

\* line 66: the wildcard path selecting every node of the module
select_xpath(name) == SLASH \o name \o WILDCARD_SUFFIX

\* a dumper whose loop stops one value early: range(values.val_cnt() - 1)
RECURSIVE print_values_short(_, _, _)
print_values_short(f, values, i) ==
    IF i > Len(values) - 1 THEN [f |-> f, ok |-> TRUE, printed |-> i - 1]
    ELSE LET r == print_value(f, values[i])
         IN  IF r.ok THEN print_values_short(r.f, values, i + 1)
                     ELSE [f |-> r.f, ok |-> FALSE, printed |-> i - 1]

\* lines 70-71: print_value for values[i], values[i+1], ... in turn; a call
\* that raises ends the loop
RECURSIVE print_values(_, _, _)
print_values(f, values, i) ==
    IF i > Len(values) THEN [f |-> f, ok |-> TRUE, printed |-> i - 1]
    ELSE LET r == print_value(f, values[i])
         IN  IF r.ok THEN print_values(r.f, values, i + 1)
                     ELSE [f |-> r.f, ok |-> FALSE, printed |-> i - 1]

\* the characters written to f since it was f0
Written(f0, f) == SubSeq(f.buf, Len(f0.buf) + 1, Len(f.buf))

\* print_current_config(session, module_name), lines 65-71, writing to f;
\* got is what session.get_items does: a collection of values or a failure
print_current_config(f, session, name, got) ==
    IF got.ok
    THEN LET r == print_values(f, got.values, 1)
         IN  [f |-> r.f, ok |-> r.ok, session |-> session,
              xpath |-> select_xpath(name), values |-> got.values,
              msg |-> << "T", "y", "p", "e", "E", "r", "r", "o", "r" >>,
              out |-> Written(f, r.f)]
    ELSE [f |-> f, ok |-> FALSE, session |-> session,
          xpath |-> select_xpath(name), values |-> << >>,
          msg |-> got.msg, out |-> << >>]

\* a callback that ignores its module_name argument and dumps the default module
module_change_cb_default(f, session, name, event, private_ctx, got) ==
    print_current_config(PrintStmt(f, MSG_CHANGED), session, DEFAULT_MODULE_NAME, got)

\* module_change_cb(sess, module_name, event, private_ctx), lines 73-76
module_change_cb(f, session, name, event, private_ctx, got) ==
    print_current_config(PrintStmt(f, MSG_CHANGED), session, name, got)

---------------------------------------------------------------------------
(* The inputs of a run: the command line, what the library calls do, what  *)
(* the datastore holds and how the library invokes the callback.           *)

PROG == << "e", "x", ".", "p", "y" >>

MOD_A == << "m" >>

MOD_B == << "t", "u" >>

\* sys.argv: no argument, one argument, two arguments
Argvs == { << PROG >>, << PROG, MOD_A >>, << PROG, MOD_B, MOD_A >> }

UNBOUND == "unbound"

CONN == "conn#1"

SESS == "sess#1"

SUBSCRIBE == "subscribe#1"

\* the session the library hands to a callback
CB_SESS == "sess#2"

ERR == << "E", "r", "r" >>

\* a library call returns or raises an exception with a message
LibOutcomes == { [ok |-> TRUE, msg |-> << >>], [ok |-> FALSE, msg |-> ERR] }

\* the values the datastore holds in a run of the script
DumpValues ==
    { [xpath |-> << "/", "m", ":", "c" >>, type |-> "SR_CONTAINER_T", data |-> PyNone],
      [xpath |-> << "/", "m", ":", "c", "/", "l" >>, type |-> "SR_BOOL_T",
       data |-> PyBool(TRUE)] }

RECURSIVE SeqsUpTo(_, _)
SeqsUpTo(S, n) ==
    IF n = 0 THEN { << >> }
    ELSE LET shorter == SeqsUpTo(S, n - 1)
         IN  shorter \cup { Append(q, x) : q \in shorter, x \in S }

\* session.get_items: a collection of at most MaxVals values, or a failure
GetOutcomes ==
    { [ok |-> TRUE, values |-> v, msg |-> << >>] : v \in SeqsUpTo(DumpValues, MaxVals) }
        \cup { [ok |-> FALSE, values |-> << >>, msg |-> ERR] }

\* the arguments the library invokes module_change_cb with
CbArgs ==
    { [sess |-> CB_SESS, module_name |-> MOD_B, event |-> "SR_EV_VERIFY",
       private_ctx |-> "None"],
      [sess |-> SESS, module_name |-> DEFAULT_MODULE_NAME, event |-> "SR_EV_APPLY",
       private_ctx |-> "ctx"] }

Call(op, by, obj, arg, ok) ==
    [op |-> op, by |-> by, obj |-> obj, arg |-> arg, ok |-> ok]

NoCb ==
    [n |-> 0, sess |-> UNBOUND, module_name |-> << >>, event |-> "none",
     private_ctx |-> "none"]

NoDump ==
    [by |-> "none", session |-> UNBOUND, module_name |-> << >>, xpath |-> << >>,
     ok |-> TRUE, values |-> << >>, out |-> << >>]

DumpOf(by, name, r) ==
    [by |-> by, session |-> r.session, module_name |-> name, xpath |-> r.xpath,
     ok |-> r.ok, values |-> r.values, out |-> r.out]

IdleValue == [xpath |-> << >>, type |-> "SR_UNKNOWN_T", data |-> PyNone]

NoRes == [done |-> FALSE, f0 |-> NewFile, f |-> NewFile, ok |-> TRUE, acc |-> << >>]

---------------------------------------------------------------------------
(* The script, lines 78-109. *)

MainIdle ==
    /\ argv = << PROG >>
    /\ module_name = << >>
    /\ conn = UNBOUND
    /\ sess = UNBOUND
    /\ subscribe = UNBOUND
    /\ stdout = NewFile
    /\ calls = << >>
    /\ registered = { }
    /\ cb = NoCb
    /\ dump = NoDump

FmtIdle == fval = IdleValue /\ fres = NoRes

Init ==
    /\ pc = "args"
    /\ argv \in Argvs
    /\ module_name = << >>
    /\ conn = UNBOUND
    /\ sess = UNBOUND
    /\ subscribe = UNBOUND
    /\ stdout = NewFile
    /\ calls = << >>
    /\ registered = { }
    /\ cb = NoCb
    /\ dump = NoDump
    /\ FmtIdle

\* lines 108-109: the outer handler prints the exception and the script ends
OuterCatch(msg) ==
    /\ stdout' = PrintStmt(stdout, msg)
    /\ pc' = "done"

\* a script that takes the argument only when a second one follows it
ParseArgs_two ==
    /\ pc = "args"
    /\ IF Len(argv) > 2
       THEN module_name' = argv[2] /\ stdout' = stdout
       ELSE module_name' = DEFAULT_MODULE_NAME /\ stdout' = PrintStmt(stdout, MSG_HINT)
    /\ pc' = "connect"
    /\ UNCHANGED << argv, conn, sess, subscribe, calls, registered, cb, dump, fmtVars >>

\* lines 79-83
ParseArgs ==
    /\ pc = "args"
    /\ IF Len(argv) > 1
       THEN module_name' = argv[2] /\ stdout' = stdout
       ELSE module_name' = DEFAULT_MODULE_NAME /\ stdout' = PrintStmt(stdout, MSG_HINT)
    /\ pc' = "connect"
    /\ UNCHANGED << argv, conn, sess, subscribe, calls, registered, cb, dump, fmtVars >>

\* line 86: conn = sr.Connection("example_application")
Connect ==
    /\ pc = "connect"
    /\ \E o \in LibOutcomes :
          /\ calls' = Append(calls, Call("Connection", "main", "sr", APP_NAME, o.ok))
          /\ IF o.ok
             THEN conn' = CONN /\ pc' = "session" /\ stdout' = stdout
             ELSE conn' = conn /\ OuterCatch(o.msg)
    /\ UNCHANGED << argv, module_name, sess, subscribe, registered, cb, dump, fmtVars >>

\* line 89: sess = sr.Session(conn)
StartSession ==
    /\ pc = "session"
    /\ \E o \in LibOutcomes :
          /\ calls' = Append(calls, Call("Session", "main", conn, << >>, o.ok))
          /\ IF o.ok
             THEN sess' = SESS /\ pc' = "subscribe" /\ stdout' = stdout
             ELSE sess' = sess /\ OuterCatch(o.msg)
    /\ UNCHANGED << argv, module_name, conn, subscribe, registered, cb, dump, fmtVars >>

\* line 92: subscribe = sr.Subscribe(sess)
NewSubscribe ==
    /\ pc = "subscribe"
    /\ \E o \in LibOutcomes :
          /\ calls' = Append(calls, Call("Subscribe", "main", sess, << >>, o.ok))
          /\ IF o.ok
             THEN subscribe' = SUBSCRIBE /\ pc' = "register" /\ stdout' = stdout
             ELSE subscribe' = subscribe /\ OuterCatch(o.msg)
    /\ UNCHANGED << argv, module_name, conn, sess, registered, cb, dump, fmtVars >>

\* line 94: subscribe.module_change_subscribe(module_name, module_change_cb)
Register ==
    /\ pc = "register"
    /\ \E o \in LibOutcomes :
          /\ calls' = Append(calls,
                 Call("module_change_subscribe", "main", subscribe, module_name, o.ok))
          /\ IF o.ok
             THEN /\ registered' = registered \cup { module_name }
                  /\ pc' = "reading"
                  /\ stdout' = stdout
             ELSE registered' = registered /\ OuterCatch(o.msg)
    /\ UNCHANGED << argv, module_name, conn, sess, subscribe, cb, dump, fmtVars >>

\* a script that prints the banner and goes on without the startup read
PrintReading_skip ==
    /\ pc = "reading"
    /\ stdout' = PrintStmt(stdout, MSG_READING)
    /\ pc' = "applied"
    /\ UNCHANGED << argv, module_name, conn, sess, subscribe, calls, registered, cb,
                    dump, fmtVars >>

\* line 96
PrintReading ==
    /\ pc = "reading"
    /\ stdout' = PrintStmt(stdout, MSG_READING)
    /\ pc' = "read"
    /\ UNCHANGED << argv, module_name, conn, sess, subscribe, calls, registered, cb,
                    dump, fmtVars >>

\* a script without the inner try: a failing startup read reaches the outer handler
StartupRead_notry ==
    /\ pc = "read"
    /\ \E got \in GetOutcomes :
          LET r == print_current_config(stdout, sess, module_name, got)
          IN  /\ calls' = Append(calls, Call("get_items", "main", sess, r.xpath, got.ok))
              /\ dump' = DumpOf("main", module_name, r)
              /\ stdout' = IF r.ok THEN r.f ELSE PrintStmt(r.f, r.msg)
              /\ pc' = IF r.ok THEN "applied" ELSE "done"
    /\ UNCHANGED << argv, module_name, conn, sess, subscribe, registered, cb, fmtVars >>

\* lines 97-100: the startup dump inside the inner try
StartupRead ==
    /\ pc = "read"
    /\ \E got \in GetOutcomes :
          LET r == print_current_config(stdout, sess, module_name, got)
          IN  /\ calls' = Append(calls, Call("get_items", "main", sess, r.xpath, got.ok))
              /\ dump' = DumpOf("main", module_name, r)
              /\ stdout' = IF r.ok THEN r.f ELSE PrintStmt(r.f, r.msg)
    /\ pc' = "applied"
    /\ UNCHANGED << argv, module_name, conn, sess, subscribe, registered, cb, fmtVars >>

\* line 102
PrintApplied ==
    /\ pc = "applied"
    /\ stdout' = PrintStmt(stdout, MSG_APPLIED)
    /\ pc' = "loop"
    /\ UNCHANGED << argv, module_name, conn, sess, subscribe, calls, registered, cb,
                    dump, fmtVars >>

\* line 104: sr.global_loop() is called
EnterLoop ==
    /\ pc = "loop"
    /\ calls' = Append(calls, Call("global_loop", "main", "sr", << >>, TRUE))
    /\ pc' = "in_loop"
    /\ UNCHANGED << argv, module_name, conn, sess, subscribe, stdout, registered, cb,
                    dump, fmtVars >>

\* a script that reconnects and starts over when the event loop fails
LeaveLoop_retry ==
    /\ pc = "in_loop"
    /\ \E o \in LibOutcomes :
          IF o.ok THEN pc' = "exit" /\ stdout' = stdout
                  ELSE pc' = "connect" /\ stdout' = PrintStmt(stdout, o.msg)
    /\ UNCHANGED << argv, module_name, conn, sess, subscribe, calls, registered, cb,
                    dump, fmtVars >>

\* line 104: sr.global_loop() returns, or raises into the outer handler
LeaveLoop ==
    /\ pc = "in_loop"
    /\ \E o \in LibOutcomes :
          IF o.ok THEN pc' = "exit" /\ stdout' = stdout ELSE OuterCatch(o.msg)
    /\ UNCHANGED << argv, module_name, conn, sess, subscribe, calls, registered, cb,
                    dump, fmtVars >>

\* line 106
PrintExit ==
    /\ pc = "exit"
    /\ stdout' = PrintStmt(stdout, MSG_EXIT)
    /\ pc' = "done"
    /\ UNCHANGED << argv, module_name, conn, sess, subscribe, calls, registered, cb,
                    dump, fmtVars >>

\* lines 73-76: the library's event loop invokes the registered callback; an
\* exception of the callback goes to the library, not to the script
Callback ==
    /\ registered # { }
    /\ pc = "in_loop"
    /\ cb.n < MaxCallbacks
    /\ \E a \in CbArgs, got \in GetOutcomes :
          LET r == module_change_cb(stdout, a.sess, a.module_name, a.event,
                                    a.private_ctx, got)
          IN  /\ cb' = [n |-> cb.n + 1, sess |-> a.sess, module_name |-> a.module_name,
                        event |-> a.event, private_ctx |-> a.private_ctx]
              /\ calls' = Append(calls, Call("get_items", "cb", a.sess, r.xpath, got.ok))
              /\ dump' = DumpOf("cb", a.module_name, r)
              /\ stdout' = r.f
    /\ UNCHANGED << pc, argv, module_name, conn, sess, subscribe, registered, fmtVars >>

Next ==
    \/ ParseArgs
    \/ Connect
    \/ StartSession
    \/ NewSubscribe
    \/ Register
    \/ PrintReading
    \/ StartupRead
    \/ PrintApplied
    \/ EnterLoop
    \/ LeaveLoop
    \/ PrintExit
    \/ Callback

Spec == Init /\ [][Next]_vars

---------------------------------------------------------------------------
(* The formatter on its own: print_value applied to every kind of value. *)

EntryFiles == { NewFile, PrintStmt(NewFile, MSG_READING) }

InitFmt ==
    /\ pc = "off"
    /\ MainIdle
    /\ fval \in Values
    /\ fres \in { [NoRes EXCEPT !.f0 = f, !.f = f] : f \in EntryFiles }

FmtPrintValue ==
    /\ ~fres.done
    /\ LET r == print_value(fres.f0, fval)
       IN  fres' = [done |-> TRUE, f0 |-> fres.f0, f |-> r.f, ok |-> r.ok, acc |-> r.acc]
    /\ UNCHANGED << fval, mainVars >>

NextFmt == FmtPrintValue

SpecFmt == InitFmt /\ [][NextFmt]_vars

---------------------------------------------------------------------------
(* Reading the output back. *)

IsPrefix(p, s) == Len(p) <= Len(s) /\ SubSeq(s, 1, Len(p)) = p

IsSuffix(p, s) == Len(p) <= Len(s) /\ SubSeq(s, Len(s) - Len(p) + 1, Len(s)) = p

Contains(s, sub) ==
    \/ sub = << >>
    \/ \E i \in 0 .. (Len(s) - Len(sub)) :
          s[i + 1] = sub[1] /\ SubSeq(s, i + 1, i + Len(sub)) = sub

NL == << "\n" >>

\* the newline-terminated lines of s, without their terminators; characters
\* after the last newline are an unterminated rest
RECURSIVE SplitAt(_, _, _, _)
SplitAt(s, i, cur, acc) ==
    IF i > Len(s) THEN [lines |-> acc, rest |-> cur]
    ELSE IF s[i] = "\n" THEN SplitAt(s, i + 1, << >>, Append(acc, cur))
    ELSE SplitAt(s, i + 1, Append(cur, s[i]), acc)

LinesOf(s) == SplitAt(s, 1, << >>, << >>).lines

RestOf(s) == SplitAt(s, 1, << >>, << >>).rest

\* what print_value wrote in the formatter harness
FmtWritten == Written(fres.f0, fres.f)

MainCalls == SelectSeq(calls, LAMBDA c : c.by = "main")

\* the get_items calls made so far
Queries == SelectSeq(calls, LAMBDA c : c.op = "get_items")

Ops(cs) == [i \in 1 .. Len(cs) |-> cs[i].op]

Called(op) == \E i \in 1 .. Len(calls) : calls[i].op = op /\ calls[i].by = "main"

---------------------------------------------------------------------------
(* The formatter: print_value. *)

\* C2: for a value of an enumerated type tag print_value does not fail and
\* writes one non-empty, newline-terminated line that contains the value's path
C2_EnumeratedTotal ==
    (fres.done /\ fval.type \in EnumeratedTypes) =>
        /\ fres.ok
        /\ Len(LinesOf(FmtWritten)) = 1
        /\ RestOf(FmtWritten) = << >>
        /\ Len(LinesOf(FmtWritten)[1]) > Len(fval.xpath)
        /\ Contains(LinesOf(FmtWritten)[1], fval.xpath)

C2_Witness ==
    /\ fres.done
    /\ fval.type = "SR_UINT16_T"
    /\ fval.data.n = 65535
    /\ IsSuffix(<< "6", "5", "5", "3", "5", "\n" >>, fres.f.buf)

\* C3: for a value of any other type tag print_value does not fail, calls no
\* payload accessor and writes the path followed by "(unprintable)"
C3_FallbackMarker ==
    (fres.done /\ fval.type \notin EnumeratedTypes) =>
        /\ fres.ok
        /\ fres.acc = << >>
        /\ FmtWritten = fval.xpath \o << " ", " " >>
                \o << "(", "u", "n", "p", "r", "i", "n", "t", "a", "b", "l", "e", ")" >>
                \o NL

C3_Witness ==
    /\ fres.done
    /\ fval.type = "SR_DECIMAL64_T"
    /\ Contains(fres.f.buf, TXT_UNPRINTABLE)

\* C4: for a boolean print_value writes the token "true" for a true payload
\* and "false" for a false one, and nothing else after the path
C4_BoolTokens ==
    (fres.done /\ fval.type = "SR_BOOL_T") =>
        /\ fres.ok
        /\ fval.data.b =>
              FmtWritten = fval.xpath \o << " ", " ", "=", " " >>
                               \o << "t", "r", "u", "e" >> \o NL
        /\ ~fval.data.b =>
              FmtWritten = fval.xpath \o << " ", " ", "=", " " >>
                               \o << "f", "a", "l", "s", "e" >> \o NL

C4_Witness ==
    /\ fres.done
    /\ fval.type = "SR_BOOL_T"
    /\ ~fval.data.b
    /\ IsSuffix(<< "f", "a", "l", "s", "e", "\n" >>, fres.f.buf)

---------------------------------------------------------------------------
(* The dumper: print_current_config. *)

\* C1: a dump whose query succeeded wrote exactly one line per returned value,
\* the i-th line being the one of the i-th value, and nothing else; a dump of
\* an empty result, or one whose query failed, wrote nothing
C1_OneLinePerValueInOrder ==
    dump.by # "none" =>
        LET lines == LinesOf(dump.out)
        IN  /\ RestOf(dump.out) = << >>
            /\ Len(lines) = Len(dump.values)
            /\ \A i \in 1 .. Len(dump.values) :
                  IsPrefix(dump.values[i].xpath \o SPACE, lines[i])
            /\ Len(dump.values) = 0 => dump.out = << >>

C1_Witness ==
    /\ dump.by = "main"
    /\ Len(dump.values) = 2
    /\ dump.values[1].type = "SR_BOOL_T"
    /\ dump.values[2].type = "SR_CONTAINER_T"
    /\ Len(LinesOf(dump.out)) = 2

\* C5: the path every dump hands to get_items is "/" + m + ":*//*" for the
\* module name m the dump was called with: the global module_name at
\* startup, the callback's own argument in a callback
C5_SelectXpath ==
    /\ dump.by # "none" =>
          /\ dump.xpath = << "/" >> \o dump.module_name \o << ":", "*", "/", "/", "*" >>
          /\ Queries # << >>
          /\ Queries[Len(Queries)].arg = dump.xpath
    /\ dump.by = "main" => dump.module_name = module_name
    /\ dump.by = "cb" => dump.module_name = cb.module_name
    /\ \A i \in 1 .. Len(calls) :
          calls[i].op = "get_items" =>
              /\ IsPrefix(<< "/" >>, calls[i].arg)
              /\ IsSuffix(<< ":", "*", "/", "/", "*" >>, calls[i].arg)
              /\ calls[i].by = "main" =>
                    calls[i].arg = << "/" >> \o module_name \o << ":", "*", "/", "/", "*" >>

C5_Witness ==
    /\ dump.by = "cb"
    /\ cb.module_name # module_name
    /\ Len(Queries) = 2
    /\ Queries[2].arg = << "/", "t", "u", ":", "*", "/", "/", "*" >>
    /\ Queries[1].arg = << "/", "m", ":", "*", "/", "/", "*" >>

---------------------------------------------------------------------------
(* The script: module name, setup order, failures, the event loop. *)

\* the module name the command line selects
ExpectedModule ==
    IF Len(argv) > 1 THEN argv[2]
    ELSE << "i", "e", "t", "f", "-", "i", "n", "t", "e", "r", "f", "a", "c", "e", "s" >>

\* C6: without an argument the subscription and the startup dump both use
\* "ietf-interfaces", with one they both use the first argument
C6_SameModuleName ==
    /\ pc # "args" => module_name = ExpectedModule
    /\ registered \subseteq { ExpectedModule }
    /\ \A i \in 1 .. Len(calls) :
          /\ calls[i].op = "module_change_subscribe" => calls[i].arg = ExpectedModule
          /\ (calls[i].op = "get_items" /\ calls[i].by = "main") =>
                calls[i].arg = << "/" >> \o ExpectedModule \o << ":", "*", "/", "/", "*" >>

C6_Witness ==
    /\ Len(argv) = 1
    /\ registered = { DEFAULT_MODULE_NAME }
    /\ Called("get_items")
    /\ dump.by = "main"
    /\ dump.module_name = DEFAULT_MODULE_NAME

\* the startup read failed / one of the four setup calls failed
StartupReadFailed ==
    \E i \in 1 .. Len(calls) :
        calls[i].op = "get_items" /\ calls[i].by = "main" /\ ~calls[i].ok

SetupFailed ==
    \E i \in 1 .. Len(calls) :
        /\ calls[i].op \in { "Connection", "Session", "Subscribe", "module_change_subscribe" }
        /\ ~calls[i].ok

\* C7: a failure of the startup read is printed and the script goes on to the
\* "APPLIED" banner and the event loop; a failure of the connection, the
\* session, the subscription object or the registration is printed and ends
\* the script, with no startup read and no event loop
C7_TwoCatchSites ==
    /\ StartupReadFailed =>
          /\ pc \in { "applied", "loop", "in_loop", "exit", "done" }
          /\ Contains(stdout.buf, MSG_READING \o NL \o ERR \o NL)
          /\ pc # "applied" =>
                Contains(stdout.buf, MSG_READING \o NL \o ERR \o NL \o MSG_APPLIED \o NL)
          /\ pc \in { "in_loop", "exit", "done" } => Called("global_loop")
    /\ SetupFailed =>
          /\ pc = "done"
          /\ ~calls[Len(calls)].ok
          /\ IsSuffix(ERR \o NL, stdout.buf)
          /\ ~Called("get_items")
          /\ ~Called("global_loop")
          /\ ~Contains(stdout.buf, MSG_READING)
          /\ ~Contains(stdout.buf, MSG_APPLIED)
          /\ dump = NoDump

C7_Witness ==
    /\ StartupReadFailed
    /\ pc = "in_loop"
    /\ Called("global_loop")
    /\ IsSuffix(ERR \o NL \o MSG_APPLIED \o NL, stdout.buf)

\* C8: every invocation of module_change_cb prints the change banner, queries
\* the wildcard path of the module name it was given on the session it was
\* given, and prints every value returned, whatever the event and the private
\* context are; it touches nothing else of the script
C8_CallbackFullRedump ==
    [][cb'.n # cb.n =>
          /\ cb'.n = cb.n + 1
          /\ calls' = Append(calls,
                 Call("get_items", "cb", cb'.sess,
                      << "/" >> \o cb'.module_name \o << ":", "*", "/", "/", "*" >>,
                      dump'.ok))
          /\ dump'.by = "cb"
          /\ dump'.session = cb'.sess
          /\ stdout'.buf = stdout.buf \o MSG_CHANGED \o NL \o dump'.out
          /\ RestOf(dump'.out) = << >>
          /\ LET lines == LinesOf(dump'.out)
             IN  /\ Len(lines) = Len(dump'.values)
                 /\ \A i \in 1 .. Len(dump'.values) :
                       IsPrefix(dump'.values[i].xpath \o SPACE, lines[i])
          /\ UNCHANGED << pc, module_name, conn, sess, subscribe, registered >>
      ]_vars

C8_Witness ==
    /\ cb.n > 0
    /\ cb.event = "SR_EV_VERIFY"
    /\ dump.by = "cb"
    /\ Len(dump.values) = 2
    /\ IsSuffix(MSG_CHANGED \o NL \o dump.out, stdout.buf)

\* C9: the script's library calls are a prefix of Connection, Session,
\* Subscribe, module_change_subscribe, get_items, global_loop, each made on
\* the object the step before created; the callback runs only once it is
\* registered, it is registered when the startup dump runs, and the event
\* loop is entered only after the startup dump attempt
C9_SetupOrder ==
    /\ IsPrefix(Ops(MainCalls),
                << "Connection", "Session", "Subscribe", "module_change_subscribe",
                   "get_items", "global_loop" >>)
    /\ \A i \in 1 .. Len(MainCalls) :
          /\ MainCalls[i].op = "Session" => MainCalls[i].obj = CONN
          /\ MainCalls[i].op = "Subscribe" => MainCalls[i].obj = SESS
          /\ MainCalls[i].op = "module_change_subscribe" => MainCalls[i].obj = SUBSCRIBE
          /\ MainCalls[i].op = "get_items" => MainCalls[i].obj = SESS
          /\ (i < Len(MainCalls) /\ MainCalls[i].op # "get_items") => MainCalls[i].ok
    /\ \A i \in 1 .. Len(calls) :
          calls[i].by = "cb" =>
              \E j \in 1 .. (i - 1) :
                  calls[j].op = "module_change_subscribe" /\ calls[j].ok
    /\ cb.n > 0 => registered # { }
    /\ Called("get_items") => registered # { }
    /\ dump.by # "none" => registered # { }
    /\ Called("global_loop") =>
          /\ Called("get_items")
          /\ Contains(stdout.buf, MSG_READING \o NL)
          /\ Contains(stdout.buf, MSG_APPLIED \o NL)
    /\ pc \in { "in_loop", "exit" } => Called("global_loop")

C9_Witness ==
    /\ cb.n > 0
    /\ Len(MainCalls) = 6
    /\ Len(calls) = 7
    /\ calls[7].by = "cb"
    /\ dump.ok

LoopEntered == Called("global_loop")

\* C10 as stated: once the event loop is entered the script does nothing of
\* its own, so that all it writes are the dumps of callback invocations (the
\* step in which a failing loop ends the script is left out of the statement)
C10_Original ==
    [][(LoopEntered /\ ~(pc = "in_loop" /\ pc' = "done")) =>
          (stdout' = stdout \/ cb'.n = cb.n + 1)]_vars

\* C10 as amended: once the event loop is entered the script makes no further
\* library call of its own and rebinds nothing; each step is a callback dump,
\* the return of the loop, the exit message after that return, or the message
\* of a failure of the loop, after which the script has ended
C10_AfterLoopEntry ==
    [][LoopEntered =>
          /\ SelectSeq(calls', LAMBDA c : c.by = "main") = MainCalls
          /\ UNCHANGED << module_name, conn, sess, subscribe, registered, argv >>
          /\ \/ cb'.n = cb.n + 1 /\ pc' = pc /\ pc = "in_loop"
             \/ /\ pc = "in_loop" /\ pc' = "exit"
                /\ UNCHANGED << stdout, cb, dump, calls >>
             \/ /\ pc = "in_loop" /\ pc' = "done"
                /\ stdout'.buf = stdout.buf \o ERR \o NL
                /\ UNCHANGED << cb, dump, calls >>
             \/ /\ pc = "exit" /\ pc' = "done"
                /\ stdout'.buf = stdout.buf \o MSG_EXIT \o NL
                /\ UNCHANGED << cb, dump, calls >>
      ]_vars

C10_Witness ==
    /\ pc = "done"
    /\ LoopEntered
    /\ cb.n > 0
    /\ IsSuffix(MSG_EXIT \o NL, stdout.buf)

====
